---- MODULE Spec2Model ----
(***************************************************************************)
(* Word+Excel batch replacement tool (src/app/main.py).                    *)
(*                                                                         *)
(* Text is a sequence of characters; a character is a one-element token    *)
(* named after its code point where it is not plain ASCII.  A document is  *)
(* its body paragraphs plus the paragraphs of its table cells in the       *)
(* table/row/cell order the code walks them; a paragraph is a sequence of  *)
(* runs, a run a text and an opaque style.                                 *)
(***************************************************************************)
EXTENDS Integers, Sequences, FiniteSets, TLC

VARIABLES
    replace_rules,   \* st.session_state.replace_rules : <<keyword, column>> list
    replaced_files,  \* st.session_state.replaced_files : ReplacedFile list
    replace_log,     \* st.session_state.replace_log
    is_replacing,    \* st.session_state.is_replacing
    replace_params,  \* st.session_state.replace_params
    replace_scope,   \* st.session_state.replace_scope (radio, key="replace_scope")
    word_file,       \* uploaded template (file_uploader key="word")
    excel_df,        \* dataframe read from the uploaded workbook
    start_row,       \* number_input key="start_row"
    end_row,         \* number_input key="end_row"
    naming,          \* file_name_col, file_prefix, file_suffix widgets
    row_idx,         \* loop variable of the batch loop while it runs
    banner,          \* what lines 910-915 rendered in the last script run
    e_pc,            \* position of the function followed on its own
    e_in,            \* its inputs (SpecEngine: rules, row, scope, paragraph)
    e_patterns,      \* the compiled patterns (SpecEngine)
    e_out            \* its result (SpecEngine: processed paragraph and counts)

vars == <<replace_rules, replaced_files, replace_log, is_replacing,
          replace_params, replace_scope, word_file, excel_df, start_row,
          end_row, naming, row_idx, banner, e_pc, e_in, e_patterns, e_out>>

sessionVars == <<replace_rules, replaced_files, replace_log, is_replacing,
                 replace_params, replace_scope, word_file, excel_df,
                 start_row, end_row, naming, row_idx, banner>>

engineVars == <<e_pc, e_in, e_patterns, e_out>>

----------------------------------------------------------------------------
(* Characters *)

LLent   == "U3010"   \* left black lenticular bracket
RLent   == "U3011"   \* right black lenticular bracket
FWLPar  == "UFF08"   \* fullwidth left parenthesis
FWRPar  == "UFF09"   \* fullwidth right parenthesis
LTort   == "U3014"   \* left tortoise shell bracket
RTort   == "U3015"   \* right tortoise shell bracket
FWColon == "UFF1A"   \* fullwidth colon
IdSpace == "U3000"   \* ideographic space
ZWSpace == "U200B"   \* zero width space
Space   == " "

ScopeFull    == "full"      \* "替换完整关键词"
ScopeBracket == "bracket"   \* "仅替换括号内内容"

----------------------------------------------------------------------------
(* Sequence helpers standing for Python str operations *)

Min(a, b) == IF a <= b THEN a ELSE b

IsPrefix(s, t) == Len(s) <= Len(t) /\ SubSeq(t, 1, Len(s)) = s

\* k in s
Contains(s, k) ==
    \E i \in 0..(Len(s) - Len(k)) : SubSeq(s, i + 1, i + Len(k)) = k

\* s.startswith(c), s.endswith(c) for a one-character c
StartsWith(s, c) == Len(s) > 0 /\ s[1] = c
EndsWith(s, c) == Len(s) > 0 /\ s[Len(s)] = c

RECURSIVE ReplaceNonEmpty(_, _, _)
ReplaceNonEmpty(s, k, r) ==
    IF Len(s) < Len(k) THEN s
    ELSE IF SubSeq(s, 1, Len(k)) = k
         THEN r \o ReplaceNonEmpty(SubSeq(s, Len(k) + 1, Len(s)), k, r)
         ELSE <<s[1]>> \o ReplaceNonEmpty(Tail(s), k, r)

RECURSIVE Intersperse(_, _)
Intersperse(s, r) ==
    IF s = <<>> THEN r ELSE r \o <<s[1]>> \o Intersperse(Tail(s), r)

\* s.replace(k, r): every non-overlapping occurrence, leftmost first; an
\* empty k matches before every character and at the end
StrReplace(s, k, r) ==
    IF k = <<>> THEN Intersperse(s, r) ELSE ReplaceNonEmpty(s, k, r)

----------------------------------------------------------------------------
(* clean_text *)

\* str.isspace() / \s on the characters of the model
IsSpace(c) == c \in {Space, IdSpace}

RECURSIVE LStrip(_)
LStrip(s) == IF s # <<>> /\ IsSpace(s[1]) THEN LStrip(Tail(s)) ELSE s

RECURSIVE RStrip(_)
RStrip(s) ==
    IF s # <<>> /\ IsSpace(s[Len(s)]) THEN RStrip(SubSeq(s, 1, Len(s) - 1)) ELSE s

Strip(s) == RStrip(LStrip(s))

\* unicodedata.normalize("NFKC", c) on the characters of the model
NFKC(c) ==
    CASE c = FWLPar  -> "("
      [] c = FWRPar  -> ")"
      [] c = FWColon -> ":"
      [] c = IdSpace -> Space
      [] OTHER       -> c

\* re.sub(r'[\u00A0\u2002-\u200B]', ' ', text): after NFKC only U+200B is left
SpecialSpace(c) == IF c = ZWSpace THEN Space ELSE c

RECURSIVE CollapseSpaces(_)
\* re.sub(r'\s+', ' ', text)
CollapseSpaces(s) ==
    IF s = <<>> THEN <<>>
    ELSE IF IsSpace(s[1])
         THEN <<Space>> \o CollapseSpaces(LStrip(s))
         ELSE <<s[1]>> \o CollapseSpaces(Tail(s))

clean_text(text) ==
    LET stripped == Strip(text)
        nfkc     == [i \in 1..Len(stripped) |-> NFKC(stripped[i])]
        spaced   == [i \in 1..Len(nfkc) |-> SpecialSpace(nfkc[i])]
    IN  CollapseSpaces(spaced)

----------------------------------------------------------------------------
(* precompute_replace_patterns *)

Pattern(old_text, col_name, format_keyword, replacement) ==
    [old_text |-> old_text, col_name |-> col_name,
     format_keyword |-> format_keyword, replacement |-> replacement]

\* excel_row[col_name] raises KeyError for a column the row does not have
RowHasColumns(replace_rules_, excel_row) ==
    \A i \in 1..Len(replace_rules_) : replace_rules_[i][2] \in DOMAIN excel_row

Bracketed(cleaned_text, open, close) ==
    StartsWith(cleaned_text, open) /\ EndsWith(cleaned_text, close)

\* the branches of lines 186-201 testing startswith alone
new_format_open_only(cleaned_text, replacement) ==
    IF StartsWith(cleaned_text, LLent)
    THEN <<LLent>> \o replacement \o <<RLent>>
    ELSE IF StartsWith(cleaned_text, "(")
    THEN <<"(">> \o replacement \o <<")">>
    ELSE IF StartsWith(cleaned_text, LTort)
    THEN <<LTort>> \o replacement \o <<RTort>>
    ELSE replacement

new_format(cleaned_text, replacement) ==
    IF Bracketed(cleaned_text, LLent, RLent)
    THEN <<LLent>> \o replacement \o <<RLent>>
    ELSE IF Bracketed(cleaned_text, FWLPar, FWRPar)
    THEN <<FWLPar>> \o replacement \o <<FWRPar>>
    ELSE IF Bracketed(cleaned_text, "(", ")")
    THEN <<"(">> \o replacement \o <<")">>
    ELSE IF Bracketed(cleaned_text, LTort, RTort)
    THEN <<LTort>> \o replacement \o <<RTort>>
    ELSE replacement

CompileRule(rule, excel_row, scope) ==
    LET old_text     == rule[1]
        col_name     == rule[2]
        replacement  == excel_row[col_name]
        cleaned_text == clean_text(old_text)
    IN  IF scope = ScopeBracket
        THEN Pattern(old_text, col_name, cleaned_text,
                     new_format(cleaned_text, replacement))
        ELSE Pattern(old_text, col_name, cleaned_text, replacement)

\* defined when RowHasColumns(replace_rules_, excel_row)
precompute_replace_patterns(replace_rules_, excel_row, scope) ==
    [i \in 1..Len(replace_rules_) |-> CompileRule(replace_rules_[i], excel_row, scope)]

----------------------------------------------------------------------------
(* process_paragraph *)

Run(text, style) == [text |-> text, style |-> style]

RECURSIVE ParagraphText(_)
\* paragraph.text: the run texts joined
ParagraphText(runs) ==
    IF runs = <<>> THEN <<>> ELSE runs[1].text \o ParagraphText(Tail(runs))

\* replace_count[key] += 1 on a dict that keeps insertion order
RECURSIVE AddCount(_, _, _)
AddCount(counts, key, n) ==
    IF counts = <<>> THEN <<[key |-> key, count |-> n]>>
    ELSE IF counts[1].key = key
         THEN <<[key |-> key, count |-> counts[1].count + n]>> \o Tail(counts)
         ELSE <<counts[1]>> \o AddCount(Tail(counts), key, n)

RECURSIVE MergeCounts(_, _)
MergeCounts(total, para_count) ==
    IF para_count = <<>> THEN total
    ELSE MergeCounts(AddCount(total, para_count[1].key, para_count[1].count),
                     Tail(para_count))

\* lines 237-241: the loop over the patterns, from pattern i on
RECURSIVE ReplaceLoop(_, _, _, _, _)
ReplaceLoop(replace_patterns, i, cleaned_para, new_text, replace_count) ==
    IF i > Len(replace_patterns)
    THEN [new_text |-> new_text, replace_count |-> replace_count]
    ELSE LET p == replace_patterns[i]
         IN  IF Contains(cleaned_para, p.format_keyword)
             THEN ReplaceLoop(replace_patterns, i + 1, cleaned_para,
                              StrReplace(new_text, p.format_keyword, p.replacement),
                              AddCount(replace_count, <<p.old_text, p.col_name>>, 1))
             ELSE ReplaceLoop(replace_patterns, i + 1, cleaned_para,
                              new_text, replace_count)

\* the commit without lines 248-249: the other runs keep their text
process_paragraph_keep_runs(runs, replace_patterns) ==
    LET para_text    == ParagraphText(runs)
        cleaned_para == clean_text(para_text)
        has_keyword  == \E i \in 1..Len(replace_patterns) :
                            Contains(cleaned_para, replace_patterns[i].format_keyword)
        loop         == ReplaceLoop(replace_patterns, 1, cleaned_para, para_text, <<>>)
    IN  IF has_keyword
        THEN [runs |-> IF Len(runs) > 0
                       THEN [runs EXCEPT ![1] = Run(loop.new_text, runs[1].style)]
                       ELSE runs,
              replace_count |-> loop.replace_count]
        ELSE [runs |-> runs, replace_count |-> <<>>]

\* the commit without the has_keyword test of line 235
process_paragraph_always(runs, replace_patterns) ==
    LET para_text    == ParagraphText(runs)
        cleaned_para == clean_text(para_text)
        loop         == ReplaceLoop(replace_patterns, 1, cleaned_para, para_text, <<>>)
    IN  [runs |-> IF Len(runs) > 0
                  THEN [i \in 1..Len(runs) |->
                           Run(IF i = 1 THEN loop.new_text ELSE <<>>, runs[i].style)]
                  ELSE runs,
         replace_count |-> loop.replace_count]

process_paragraph(runs, replace_patterns) ==
    LET para_text    == ParagraphText(runs)
        cleaned_para == clean_text(para_text)
        has_keyword  == \E i \in 1..Len(replace_patterns) :
                            Contains(cleaned_para, replace_patterns[i].format_keyword)
        loop         == ReplaceLoop(replace_patterns, 1, cleaned_para, para_text, <<>>)
    IN  IF has_keyword
        THEN [runs |-> IF Len(runs) > 0
                       THEN [i \in 1..Len(runs) |->
                                Run(IF i = 1 THEN loop.new_text ELSE <<>>,
                                    runs[i].style)]
                       ELSE runs,
              replace_count |-> loop.replace_count]
        ELSE [runs |-> runs, replace_count |-> <<>>]

----------------------------------------------------------------------------
(* replace_word_with_format *)

\* io.BytesIO(): the empty payload of a failed row
EmptyBytes == [empty |-> TRUE, paragraphs |-> <<>>, cells |-> <<>>]

\* doc.save(output_file)
SavedBytes(paragraphs, cells) ==
    [empty |-> FALSE, paragraphs |-> paragraphs, cells |-> cells]

LogOf(kind, lines, error) == [kind |-> kind, lines |-> lines, error |-> error]

\* lines 278-281 and 284-290: the blocks from block i on, counts accumulated
RECURSIVE ProcessBlocks(_, _, _, _)
ProcessBlocks(blocks, replace_patterns, i, replace_count) ==
    IF i > Len(blocks) THEN [blocks |-> blocks, replace_count |-> replace_count]
    ELSE LET r == process_paragraph(blocks[i], replace_patterns)
         IN  ProcessBlocks([blocks EXCEPT ![i] = r.runs], replace_patterns, i + 1,
                           MergeCounts(replace_count, r.replace_count))

\* the first rule whose column the row lacks: the KeyError raised at line 179
MissingColumn(replace_rules_, excel_row) ==
    LET i == CHOOSE j \in 1..Len(replace_rules_) :
                 /\ replace_rules_[j][2] \notin DOMAIN excel_row
                 /\ \A k \in 1..(j - 1) : replace_rules_[k][2] \in DOMAIN excel_row
    IN  replace_rules_[i][2]

\* lines 298-303
RowLog(replace_count, excel_row) ==
    IF replace_count # <<>>
    THEN LogOf("replaced",
               [i \in 1..Len(replace_count) |->
                   [old   |-> replace_count[i].key[1],
                    value |-> excel_row[replace_count[i].key[2]],
                    count |-> replace_count[i].count]],
               "")
    ELSE LogOf("not_found", <<>>, "")

\* the except branch returning the document instead of an empty buffer
replace_word_with_format_payload(word, excel_row, replace_rules_, scope) ==
    IF ~word.valid
    THEN [data |-> EmptyBytes, log |-> LogOf("failed", <<>>, "PackageNotFoundError")]
    ELSE IF ~RowHasColumns(replace_rules_, excel_row)
    THEN [data |-> SavedBytes(word.paragraphs, word.cells),
          log  |-> LogOf("failed", <<>>, MissingColumn(replace_rules_, excel_row))]
    ELSE LET replace_patterns == precompute_replace_patterns(replace_rules_, excel_row, scope)
             body  == ProcessBlocks(word.paragraphs, replace_patterns, 1, <<>>)
             table == ProcessBlocks(word.cells, replace_patterns, 1, body.replace_count)
         IN  [data |-> SavedBytes(body.blocks, table.blocks),
              log  |-> RowLog(table.replace_count, excel_row)]

replace_word_with_format(word, excel_row, replace_rules_, scope) ==
    IF ~word.valid
    THEN [data |-> EmptyBytes, log |-> LogOf("failed", <<>>, "PackageNotFoundError")]
    ELSE IF ~RowHasColumns(replace_rules_, excel_row)
    THEN [data |-> EmptyBytes,
          log  |-> LogOf("failed", <<>>, MissingColumn(replace_rules_, excel_row))]
    ELSE LET replace_patterns == precompute_replace_patterns(replace_rules_, excel_row, scope)
             body  == ProcessBlocks(word.paragraphs, replace_patterns, 1, <<>>)
             table == ProcessBlocks(word.cells, replace_patterns, 1, body.replace_count)
         IN  [data |-> SavedBytes(body.blocks, table.blocks),
              log  |-> RowLog(table.replace_count, excel_row)]

----------------------------------------------------------------------------
(* file names *)

IllegalChars == {"\\", "/", ":", "*", "?", "\"", "<", ">", "|"}

\* the pattern of line 159 without the colon
clean_filename_keep_colon(filename) ==
    [i \in 1..Len(filename) |->
        IF filename[i] \in IllegalChars \ {":"} THEN "_" ELSE filename[i]]

clean_filename(filename) ==
    [i \in 1..Len(filename) |->
        IF filename[i] \in IllegalChars THEN "_" ELSE filename[i]]

DocxExt == <<".", "d", "o", "c", "x">>

\* "替换结果_"
ResultLabel == <<"U66FF", "U6362", "U7ED3", "U679C", "_">>

\* str(row_idx + 1)
RowNumber(n) == <<ToString(n)>>

\* the branch of line 944 forgetting the suffix
RawFileName_no_suffix(excel_row, idx, file_name_col, file_prefix, file_suffix) ==
    LET base_name == IF file_name_col # "" /\ file_name_col \in DOMAIN excel_row
                     THEN clean_text(excel_row[file_name_col])
                     ELSE ResultLabel \o RowNumber(idx + 1)
    IN  IF file_prefix # <<>>
        THEN file_prefix \o base_name \o DocxExt
        ELSE IF file_suffix # <<>>
        THEN base_name \o file_suffix \o DocxExt
        ELSE base_name \o DocxExt

\* lines 934-952
RawFileName(excel_row, idx, file_name_col, file_prefix, file_suffix) ==
    LET base_name == IF file_name_col # "" /\ file_name_col \in DOMAIN excel_row
                     THEN clean_text(excel_row[file_name_col])
                     ELSE ResultLabel \o RowNumber(idx + 1)
    IN  IF file_prefix # <<>> /\ file_suffix # <<>>
        THEN file_prefix \o base_name \o file_suffix \o DocxExt
        ELSE IF file_prefix # <<>>
        THEN file_prefix \o base_name \o DocxExt
        ELSE IF file_suffix # <<>>
        THEN base_name \o file_suffix \o DocxExt
        ELSE base_name \o DocxExt

ReplacedFile(filename, data, idx, log) ==
    [filename |-> filename, data |-> data, row_idx |-> idx, log |-> log]

\* the document parsed once for the batch: each row works on the tree the
\* row before it has left
RowArtifactSharedTree(word, df, idx, replace_rules_, scope, nm) ==
    LET excel_row == df.rows[idx + 1]
        last == replaced_files[Len(replaced_files)]
        tree == IF replaced_files # <<>> /\ ~last.data.empty
                THEN [word EXCEPT !.paragraphs = last.data.paragraphs,
                                  !.cells = last.data.cells]
                ELSE word
        r == replace_word_with_format(tree, excel_row, replace_rules_, scope)
    IN  ReplacedFile(
            clean_filename(RawFileName(excel_row, idx, nm.file_name_col,
                                       nm.file_prefix, nm.file_suffix)),
            r.data, idx, r.log)

\* lines 926-963: the artifact of row idx
RowArtifact(word, df, idx, replace_rules_, scope, nm) ==
    LET excel_row == df.rows[idx + 1]
        r == replace_word_with_format(word, excel_row, replace_rules_, scope)
    IN  ReplacedFile(
            clean_filename(RawFileName(excel_row, idx, nm.file_name_col,
                                       nm.file_prefix, nm.file_suffix)),
            r.data, idx, r.log)

\* line 966: f"第{row_idx + 1}行：{replace_log}"
LogEntry(idx, log) == [row |-> idx + 1, log |-> log]

----------------------------------------------------------------------------
(* Inputs the session is driven with *)

KwName == <<LLent, "n", RLent>>
KwAmt  == <<"k">>

RuleName == <<KwName, "c1">>
RuleAmt  == <<KwAmt, "c2">>

\* what the keyword box and the column box can hold when "add" is pressed
AddableRules == {RuleName, RuleAmt}

\* a keyword of one blank: the text box hands it over as typed, and it is
\* truthy for the test of line 749
RuleBlank == <<<<Space>>, "c1">>

\* {"keyword": "", "excel_column": "c2"}
RuleEmpty == <<<<>>, "c2">>

RuleUniverse == <<RuleName, RuleAmt, RuleBlank, RuleEmpty>>

\* an entry of an imported JSON list; ok is FALSE for an entry that is not a
\* dict with both "keyword" and "excel_column"
ImportEntry(ok, rule) == [ok |-> ok, rule |-> rule]

ImportFiles ==
    { <<ImportEntry(TRUE, RuleAmt), ImportEntry(TRUE, RuleAmt)>>,
      <<ImportEntry(FALSE, RuleName), ImportEntry(TRUE, RuleName),
        ImportEntry(TRUE, RuleAmt)>> }

NoWord == [present |-> FALSE, name |-> "", valid |-> FALSE,
           paragraphs |-> <<>>, cells |-> <<>>]

WordA == [present |-> TRUE, name |-> "t.docx", valid |-> TRUE,
          paragraphs |-> << <<Run(<<"x", FWColon>>, "plain"), Run(KwName, "bold")>> >>,
          cells |-> << <<Run(<<"k">>, "plain")>> >>]

\* another template uploaded under the same file name
WordB == [present |-> TRUE, name |-> "t.docx", valid |-> TRUE,
          paragraphs |-> << <<Run(<<LLent, "n">>, "plain"), Run(<<RLent>>, "bold")>> >>,
          cells |-> <<>>]

WordFiles == {NoWord, WordA, WordB}

\* the selectbox option shown while no workbook is loaded
NoColumn == "no_excel"

NoExcel == [loaded |-> FALSE, columns |-> <<NoColumn>>, rows |-> <<>>]

\* rows of the workbooks
MaxRows == 2

CellNames == <<"a", "b", "c", "d">>

ExcelA == [loaded |-> TRUE, columns |-> <<"c1", "c2">>,
           rows |-> [i \in 1..MaxRows |->
                        [c1 |-> <<CellNames[i]>>, c2 |-> <<ToString(i)>>]]]

\* another workbook with as many rows, other values and no column c2
ExcelB == [loaded |-> TRUE, columns |-> <<"c1">>,
           rows |-> [i \in 1..MaxRows |-> [c1 |-> <<CellNames[1]>>]]]

ExcelFiles == {NoExcel, ExcelA, ExcelB}

\* what the prefix and suffix boxes hold
Affixes == { <<<<>>, <<>>>>, <<<<"A", "_">>, <<"_", "B">>>> }

Naming(col, prefix, suffix) ==
    [file_name_col |-> col, file_prefix |-> prefix, file_suffix |-> suffix]

----------------------------------------------------------------------------
(* get_replace_params *)

HashBits == 16

RuleCode(rule) == CHOOSE i \in 1..Len(RuleUniverse) : RuleUniverse[i] = rule

\* hash(tuple(replace_rules)): a positional hash of HashBits bits
RECURSIVE TupleHash(_, _)
TupleHash(rules, h) ==
    IF rules = <<>> THEN h
    ELSE TupleHash(Tail(rules), (h * 31 + RuleCode(rules[1])) % (2 ^ HashBits))

\* the parameters without the rule count and the rule hash
get_replace_params_no_rules(word, df, start, end, nm, rules) ==
    [word_filename |-> IF word.present THEN word.name ELSE "",
     excel_rows    |-> IF df.loaded THEN Len(df.rows) ELSE 0,
     start_row     |-> start,
     end_row       |-> end,
     file_name_col |-> nm.file_name_col,
     file_prefix   |-> nm.file_prefix,
     file_suffix   |-> nm.file_suffix,
     rule_count    |-> 0,
     rule_hash     |-> 0]

get_replace_params(word, df, start, end, nm, rules) ==
    [word_filename |-> IF word.present THEN word.name ELSE "",
     excel_rows    |-> IF df.loaded THEN Len(df.rows) ELSE 0,
     start_row     |-> start,
     end_row       |-> end,
     file_name_col |-> nm.file_name_col,
     file_prefix   |-> nm.file_prefix,
     file_suffix   |-> nm.file_suffix,
     rule_count    |-> Len(rules),
     rule_hash     |-> TupleHash(rules, 7)]

current_params ==
    get_replace_params(word_file, excel_df, start_row, end_row, naming, replace_rules)

\* lines 893-896; replace_params is <<>> for the initial {} and <<p>> once stored
NeedReplace(files, params, current) ==
    Len(files) = 0 \/ params # <<current>>

need_replace == NeedReplace(replaced_files, replace_params, current_params)

\* line 885
can_replace == word_file.present /\ excel_df.loaded /\ Len(replace_rules) > 0

\* lines 910-915
Banner(replacing, files, params, current) ==
    IF replacing THEN "busy"
    ELSE IF Len(files) > 0 /\ ~NeedReplace(files, params, current) THEN "done"
    ELSE "none"

----------------------------------------------------------------------------
(* The session: one action per script run.  A session runs one script at   *)
(* a time; the batch loop is followed row by row so that a press of the    *)
(* run button arriving meanwhile meets the is_replacing guard.             *)

EngineIdle ==
    [rules |-> <<>>, row |-> [c1 |-> <<>>], scope |-> ScopeFull, runs |-> <<>>]

\* init_session_state and the widgets' defaults
Init ==
    /\ replace_rules = <<>>
    /\ replaced_files = <<>>
    /\ replace_log = <<>>
    /\ is_replacing = FALSE
    /\ replace_params = <<>>
    /\ replace_scope = ScopeFull
    /\ word_file = NoWord
    /\ excel_df = NoExcel
    /\ start_row = 1
    /\ end_row = 1
    /\ naming = Naming(NoColumn, <<>>, <<>>)
    /\ row_idx = 0
    /\ banner = "none"
    /\ e_pc = "off"
    /\ e_in = EngineIdle
    /\ e_patterns = <<>>
    /\ e_out = [runs |-> <<>>, replace_count |-> <<>>]

\* lines 910-915 as rendered by a script run that sees the new state
Rerender ==
    banner' = Banner(is_replacing', replaced_files', replace_params', current_params')

UploadWord(w) ==
    /\ ~is_replacing
    /\ w # word_file
    /\ word_file' = w
    /\ UNCHANGED <<replace_rules, replaced_files, replace_log, is_replacing,
                   replace_params, replace_scope, excel_df, start_row, end_row,
                   naming, row_idx>>
    /\ Rerender
    /\ UNCHANGED engineVars

\* a workbook with another row count or other columns makes new widgets,
\* which start at their defaults (value=1, value=len(excel_df), index 0)
UploadExcel(d) ==
    /\ ~is_replacing
    /\ d # excel_df
    /\ excel_df' = d
    /\ IF Len(d.rows) = Len(excel_df.rows) /\ d.loaded = excel_df.loaded
       THEN UNCHANGED <<start_row, end_row>>
       ELSE /\ start_row' = 1
            /\ end_row' = IF d.loaded THEN Len(d.rows) ELSE 1
    /\ naming' = IF d.columns = excel_df.columns THEN naming
                 ELSE [naming EXCEPT !.file_name_col = d.columns[1]]
    /\ UNCHANGED <<replace_rules, replaced_files, replace_log, is_replacing,
                   replace_params, replace_scope, word_file, row_idx>>
    /\ Rerender
    /\ UNCHANGED engineVars

SetStartRow(n) ==
    /\ ~is_replacing
    /\ excel_df.loaded
    /\ n # start_row
    /\ start_row' = n
    /\ UNCHANGED <<replace_rules, replaced_files, replace_log, is_replacing,
                   replace_params, replace_scope, word_file, excel_df, end_row,
                   naming, row_idx>>
    /\ Rerender
    /\ UNCHANGED engineVars

SetEndRow(n) ==
    /\ ~is_replacing
    /\ excel_df.loaded
    /\ n # end_row
    /\ end_row' = n
    /\ UNCHANGED <<replace_rules, replaced_files, replace_log, is_replacing,
                   replace_params, replace_scope, word_file, excel_df, start_row,
                   naming, row_idx>>
    /\ Rerender
    /\ UNCHANGED engineVars

SetNaming(nm) ==
    /\ ~is_replacing
    /\ excel_df.loaded
    /\ nm # naming
    /\ naming' = nm
    /\ UNCHANGED <<replace_rules, replaced_files, replace_log, is_replacing,
                   replace_params, replace_scope, word_file, excel_df, start_row,
                   end_row, row_idx>>
    /\ Rerender
    /\ UNCHANGED engineVars

SetScope(scope) ==
    /\ ~is_replacing
    /\ scope # replace_scope
    /\ replace_scope' = scope
    /\ UNCHANGED <<replace_rules, replaced_files, replace_log, is_replacing,
                   replace_params, word_file, excel_df, start_row, end_row,
                   naming, row_idx>>
    /\ Rerender
    /\ UNCHANGED engineVars

InList(x, seq) == \E i \in 1..Len(seq) : seq[i] = x

\* lines 754-762; the button is enabled for a non-empty keyword and a column
\* of the loaded workbook
AddRule(rule) ==
    /\ ~is_replacing
    /\ rule[1] # <<>>
    /\ excel_df.loaded
    /\ InList(rule[2], excel_df.columns)
    /\ replace_rules' = IF InList(rule, replace_rules) THEN replace_rules
                        ELSE Append(replace_rules, rule)
    /\ UNCHANGED <<replaced_files, replace_log, is_replacing, replace_params,
                   replace_scope, word_file, excel_df, start_row, end_row,
                   naming, row_idx>>
    /\ Rerender
    /\ UNCHANGED engineVars

\* the loop of lines 688-696 without the test of line 693
RECURSIVE ImportLoopNoCheck(_, _, _)
ImportLoopNoCheck(rules_data, i, rules) ==
    IF i > Len(rules_data) THEN rules
    ELSE IF rules_data[i].ok
         THEN ImportLoopNoCheck(rules_data, i + 1, Append(rules, rules_data[i].rule))
         ELSE ImportLoopNoCheck(rules_data, i + 1, rules)

\* lines 688-696: the entries of the file from entry i on
RECURSIVE ImportLoop(_, _, _)
ImportLoop(rules_data, i, rules) ==
    IF i > Len(rules_data) THEN rules
    ELSE IF rules_data[i].ok /\ ~InList(rules_data[i].rule, rules)
         THEN ImportLoop(rules_data, i + 1, Append(rules, rules_data[i].rule))
         ELSE ImportLoop(rules_data, i + 1, rules)

ImportRules(rules_data) ==
    /\ ~is_replacing
    /\ replace_rules' = ImportLoop(rules_data, 1, replace_rules)
    /\ UNCHANGED <<replaced_files, replace_log, is_replacing, replace_params,
                   replace_scope, word_file, excel_df, start_row, end_row,
                   naming, row_idx>>
    /\ Rerender
    /\ UNCHANGED engineVars

\* lines 775-779
ClearRules ==
    /\ ~is_replacing
    /\ replace_rules # <<>>
    /\ replace_rules' = <<>>
    /\ replaced_files' = <<>>
    /\ UNCHANGED <<replace_log, is_replacing, replace_params, replace_scope,
                   word_file, excel_df, start_row, end_row, naming, row_idx>>
    /\ Rerender
    /\ UNCHANGED engineVars

\* replace_rules.pop(idx)
Pop(seq, i) == SubSeq(seq, 1, i - 1) \o SubSeq(seq, i + 1, Len(seq))

\* lines 808-812
DeleteRule(idx) ==
    /\ ~is_replacing
    /\ idx \in 1..Len(replace_rules)
    /\ replace_rules' = Pop(replace_rules, idx)
    /\ replaced_files' = <<>>
    /\ UNCHANGED <<replace_log, is_replacing, replace_params, replace_scope,
                   word_file, excel_df, start_row, end_row, naming, row_idx>>
    /\ Rerender
    /\ UNCHANGED engineVars

\* the loop stopping one row early
LoopStopShort == Min(end_row, Len(excel_df.rows)) - 1

\* range(start_row - 1, min(end_row, len(excel_df))): its stop value
LoopStop == Min(end_row, Len(excel_df.rows))

\* the handler without line 920: the previous result is not cleared
ReplaceStartKeepFiles ==
    /\ can_replace
    /\ ~is_replacing
    /\ ~(start_row > end_row)
    /\ banner' = Banner(is_replacing, replaced_files, replace_params, current_params)
    /\ is_replacing' = TRUE
    /\ replace_log' = <<>>
    /\ row_idx' = start_row - 1
    /\ UNCHANGED <<replace_rules, replaced_files, replace_params, replace_scope,
                   word_file, excel_df, start_row, end_row, naming>>
    /\ UNCHANGED engineVars

\* the button of line 905 without "or start_row > end_row"
ReplaceStartAnyRange ==
    /\ can_replace
    /\ ~is_replacing
    /\ banner' = Banner(is_replacing, replaced_files, replace_params, current_params)
    /\ is_replacing' = TRUE
    /\ replaced_files' = <<>>
    /\ replace_log' = <<>>
    /\ row_idx' = start_row - 1
    /\ UNCHANGED <<replace_rules, replace_params, replace_scope, word_file,
                   excel_df, start_row, end_row, naming>>
    /\ UNCHANGED engineVars

\* lines 902-908 and 918-921: the button is enabled, pressed, and the guard
\* of line 918 passes
ReplaceStart ==
    /\ can_replace
    /\ ~is_replacing
    /\ ~(start_row > end_row)
    /\ banner' = Banner(is_replacing, replaced_files, replace_params, current_params)
    /\ is_replacing' = TRUE
    /\ replaced_files' = <<>>
    /\ replace_log' = <<>>
    /\ row_idx' = start_row - 1
    /\ UNCHANGED <<replace_rules, replace_params, replace_scope, word_file,
                   excel_df, start_row, end_row, naming>>
    /\ UNCHANGED engineVars

\* lines 925-966: one turn of the loop
ReplaceRow ==
    /\ is_replacing
    /\ row_idx < LoopStop
    /\ LET f == RowArtifact(word_file, excel_df, row_idx, replace_rules,
                            replace_scope, naming)
       IN  /\ replaced_files' = Append(replaced_files, f)
           /\ replace_log' = Append(replace_log, LogEntry(row_idx, f.log))
    /\ row_idx' = row_idx + 1
    /\ UNCHANGED <<replace_rules, is_replacing, replace_params, replace_scope,
                   word_file, excel_df, start_row, end_row, naming, banner>>
    /\ UNCHANGED engineVars

\* the end of the handler without line 975
ReplaceFinishKeepFlag ==
    /\ is_replacing
    /\ ~(row_idx < LoopStop)
    /\ replace_params' = <<current_params>>
    /\ UNCHANGED <<replace_rules, replaced_files, replace_log, is_replacing,
                   replace_scope, word_file, excel_df, start_row, end_row, naming,
                   row_idx, banner>>
    /\ UNCHANGED engineVars

\* lines 968-975: the loop is over
ReplaceFinish ==
    /\ is_replacing
    /\ ~(row_idx < LoopStop)
    /\ replace_params' = <<current_params>>
    /\ is_replacing' = FALSE
    /\ row_idx' = 0
    /\ UNCHANGED <<replace_rules, replaced_files, replace_log, replace_scope,
                   word_file, excel_df, start_row, end_row, naming, banner>>
    /\ UNCHANGED engineVars

\* line 918 without "and not st.session_state.is_replacing"
ReplaceBusyUnguarded ==
    /\ is_replacing
    /\ banner' = Banner(is_replacing, replaced_files, replace_params, current_params)
    /\ is_replacing' = TRUE
    /\ replaced_files' = <<>>
    /\ replace_log' = <<>>
    /\ row_idx' = start_row - 1
    /\ UNCHANGED <<replace_rules, replace_params, replace_scope, word_file,
                   excel_df, start_row, end_row, naming>>
    /\ UNCHANGED engineVars

\* the run button pressed while the batch is running: the script run renders
\* line 913 and the guard of line 918 skips the batch
ReplaceBusy ==
    /\ is_replacing
    /\ banner' = Banner(is_replacing, replaced_files, replace_params, current_params)
    /\ UNCHANGED <<replace_rules, replaced_files, replace_log, is_replacing,
                   replace_params, replace_scope, word_file, excel_df, start_row,
                   end_row, naming, row_idx>>
    /\ UNCHANGED engineVars

Next ==
    \/ \E w \in WordFiles : UploadWord(w)
    \/ \E d \in ExcelFiles : UploadExcel(d)
    \/ \E n \in 1..Len(excel_df.rows) : SetStartRow(n)
    \/ \E n \in 1..Len(excel_df.rows) : SetEndRow(n)
    \/ \E a \in Affixes : SetNaming(Naming(excel_df.columns[1], a[1], a[2]))
    \/ \E scope \in {ScopeFull, ScopeBracket} : SetScope(scope)
    \/ \E rule \in AddableRules : AddRule(rule)
    \/ \E rules_data \in ImportFiles : ImportRules(rules_data)
    \/ ClearRules
    \/ \E idx \in 1..Len(replace_rules) : DeleteRule(idx)
    \/ ReplaceStart
    \/ ReplaceRow
    \/ ReplaceFinish
    \/ ReplaceBusy

Spec == Init /\ [][Next]_vars

----------------------------------------------------------------------------
(* The session with an exception raised in the loop body outside           *)
(* replace_word_with_format: no value of a workbook or template raises     *)
(* there, a runtime fault such as MemoryError can.  "name" is a raise      *)
(* before the append of line 958, "log" a raise at line 966.               *)

AbortPoints == {"name", "log"}

\* lines 926-966 raising, then lines 972-975
ReplaceAbort(at) ==
    /\ is_replacing
    /\ row_idx < LoopStop
    /\ replaced_files' =
           IF at = "log"
           THEN Append(replaced_files,
                       RowArtifact(word_file, excel_df, row_idx, replace_rules,
                                   replace_scope, naming))
           ELSE replaced_files
    /\ is_replacing' = FALSE
    /\ row_idx' = 0
    /\ UNCHANGED <<replace_rules, replace_log, replace_params, replace_scope,
                   word_file, excel_df, start_row, end_row, naming, banner>>
    /\ UNCHANGED engineVars

\* a session with a template, a workbook and one rule, as left by
\* UploadWord(WordA), UploadExcel(ExcelA), AddRule and, for ExcelB, which
\* lacks the column of RuleAmt, a later UploadExcel(ExcelB)
FaultInit ==
    /\ replace_rules \in {<<RuleName>>, <<RuleAmt>>}
    /\ replaced_files = <<>>
    /\ replace_log = <<>>
    /\ is_replacing = FALSE
    /\ replace_params = <<>>
    /\ replace_scope = ScopeFull
    /\ word_file = WordA
    /\ excel_df \in {ExcelA, ExcelB}
    /\ start_row = 1
    /\ end_row = Len(excel_df.rows)
    /\ naming = Naming(excel_df.columns[1], <<>>, <<>>)
    /\ row_idx = 0
    /\ banner = "none"
    /\ e_pc = "off"
    /\ e_in = EngineIdle
    /\ e_patterns = <<>>
    /\ e_out = [runs |-> <<>>, replace_count |-> <<>>]

FaultNext ==
    \/ \E n \in 1..Len(excel_df.rows) : SetStartRow(n)
    \/ \E n \in 1..Len(excel_df.rows) : SetEndRow(n)
    \/ \E rule \in AddableRules : AddRule(rule)
    \/ \E idx \in 1..Len(replace_rules) : DeleteRule(idx)
    \/ ReplaceStart
    \/ ReplaceRow
    \/ ReplaceFinish
    \/ ReplaceBusy
    \/ \E at \in AbortPoints : ReplaceAbort(at)

\* a turn of the for loop of line 925 as seen on its loop variable: the
\* steps that advance row_idx are the ReplaceRow steps
LoopTurn == is_replacing /\ row_idx < LoopStop /\ row_idx' = row_idx + 1

\* the handler is one Python call: once started, the loop goes on by itself
SpecFault ==
    /\ FaultInit
    /\ [][FaultNext]_vars
    /\ WF_row_idx(LoopTurn)
    /\ WF_vars(ReplaceFinish)

----------------------------------------------------------------------------
(* The single-row pipeline on its own: one rule list, one row, one scope   *)
(* and one paragraph are compiled and processed.                            *)

MaxEngineRules == 2
MaxRuns == 2

SeqsUpTo(S, n) == UNION {[1..k -> S] : k \in 0..n}

NoRepeat(seq) == \A i, j \in 1..Len(seq) : i # j => seq[i] # seq[j]

EngineRules ==
    { <<KwName, "c1">>,
      <<<<FWLPar, "n", FWRPar>>, "c1">>,
      <<<<"(", "n", ")">>, "c1">>,
      <<<<LTort, "n", RTort>>, "c1">>,
      <<<<"n">>, "c2">>,
      <<<<IdSpace, LLent, "n">>, "c2">> }

EngineRuleLists == {r \in SeqsUpTo(EngineRules, MaxEngineRules) : NoRepeat(r)}

EngineRow == [c1 |-> <<"v">>, c2 |-> <<"n", "w">>]

RunTexts ==
    { <<>>, <<"x">>, <<LLent, "n">>, <<RLent>>,
      <<FWLPar, "n", FWRPar>>, <<"(", "n", ")">> }

Styles == <<"plain", "bold", "italic", "underline">>

\* the run at position i carries the i-th style
EngineParagraphs ==
    { [i \in 1..Len(t) |-> Run(t[i], Styles[i])] : t \in SeqsUpTo(RunTexts, MaxRuns) }

EngineInit ==
    /\ replace_rules = <<>>
    /\ replaced_files = <<>>
    /\ replace_log = <<>>
    /\ is_replacing = FALSE
    /\ replace_params = <<>>
    /\ replace_scope = ScopeFull
    /\ word_file = NoWord
    /\ excel_df = NoExcel
    /\ start_row = 1
    /\ end_row = 1
    /\ naming = Naming(NoColumn, <<>>, <<>>)
    /\ row_idx = 0
    /\ banner = "none"
    /\ e_pc = "input"
    /\ e_in \in [rules : EngineRuleLists, row : {EngineRow},
                 scope : {ScopeFull, ScopeBracket}, runs : EngineParagraphs]
    /\ e_patterns = <<>>
    /\ e_out = [runs |-> <<>>, replace_count |-> <<>>]

\* line 275
Compile ==
    /\ e_pc = "input"
    /\ RowHasColumns(e_in.rules, e_in.row)
    /\ e_patterns' = precompute_replace_patterns(e_in.rules, e_in.row, e_in.scope)
    /\ e_pc' = "compiled"
    /\ UNCHANGED <<e_in, e_out>>
    /\ UNCHANGED sessionVars

\* line 279
Process ==
    /\ e_pc = "compiled"
    /\ e_out' = process_paragraph(e_in.runs, e_patterns)
    /\ e_pc' = "processed"
    /\ UNCHANGED <<e_in, e_patterns>>
    /\ UNCHANGED sessionVars

EngineNext == Compile \/ Process

SpecEngine == EngineInit /\ [][EngineNext]_vars

----------------------------------------------------------------------------
(* The session on a workbook whose rows share the value of the naming      *)
(* column, and the archive the download section builds from the list.      *)

\* a workbook whose rows have the same c1 and different c2
ExcelC == [loaded |-> TRUE, columns |-> <<"c1", "c2">>,
           rows |-> [i \in 1..MaxRows |->
                        [c1 |-> <<CellNames[1]>>, c2 |-> <<ToString(i)>>]]]

\* as left by UploadWord(WordA), UploadExcel(ExcelC) and AddRule
CollideInit ==
    /\ replace_rules \in {<<RuleName>>, <<RuleAmt>>}
    /\ replaced_files = <<>>
    /\ replace_log = <<>>
    /\ is_replacing = FALSE
    /\ replace_params = <<>>
    /\ replace_scope = ScopeFull
    /\ word_file = WordA
    /\ excel_df = ExcelC
    /\ start_row = 1
    /\ end_row = Len(excel_df.rows)
    /\ naming = Naming(excel_df.columns[1], <<>>, <<>>)
    /\ row_idx = 0
    /\ banner = "none"
    /\ e_pc = "off"
    /\ e_in = EngineIdle
    /\ e_patterns = <<>>
    /\ e_out = [runs |-> <<>>, replace_count |-> <<>>]

CollideNext ==
    \/ \E n \in 1..Len(excel_df.rows) : SetStartRow(n)
    \/ \E n \in 1..Len(excel_df.rows) : SetEndRow(n)
    \/ \E a \in Affixes : SetNaming(Naming(excel_df.columns[1], a[1], a[2]))
    \/ \E scope \in {ScopeFull, ScopeBracket} : SetScope(scope)
    \/ \E rule \in AddableRules : AddRule(rule)
    \/ \E idx \in 1..Len(replace_rules) : DeleteRule(idx)
    \/ ReplaceStart
    \/ ReplaceRow
    \/ ReplaceFinish
    \/ ReplaceBusy

SpecCollide == CollideInit /\ [][CollideNext]_vars

\* an archive that writes a name once: the first file of a name is kept
ZipArchiveFirstOnly(files) ==
    LET keep == {i \in 1..Len(files) :
                    \A j \in 1..(i - 1) : files[j].filename # files[i].filename}
        RECURSIVE Pick(_)
        Pick(i) == IF i > Len(files) THEN <<>>
                   ELSE IF i \in keep
                        THEN <<[name |-> files[i].filename, data |-> files[i].data]>>
                             \o Pick(i + 1)
                        ELSE Pick(i + 1)
    IN  Pick(1)

\* lines 1012-1015: one entry per file, in list order
ZipArchive(files) ==
    [i \in 1..Len(files) |-> [name |-> files[i].filename, data |-> files[i].data]]

\* ZipFile.read(name): the name's entry in NameToInfo is the last one written
ZipRead(archive, name) ==
    LET last == CHOOSE i \in 1..Len(archive) :
                    /\ archive[i].name = name
                    /\ \A j \in (i + 1)..Len(archive) : archive[j].name # name
    IN  archive[last].data

----------------------------------------------------------------------------
(* The file name of one row on its own (lines 933-955).                    *)

\* no batch is running and nothing is loaded
SessionFresh ==
    /\ replace_rules = <<>>
    /\ replaced_files = <<>>
    /\ replace_log = <<>>
    /\ is_replacing = FALSE
    /\ replace_params = <<>>
    /\ replace_scope = ScopeFull
    /\ word_file = NoWord
    /\ excel_df = NoExcel
    /\ start_row = 1
    /\ end_row = 1
    /\ naming = Naming(NoColumn, <<>>, <<>>)
    /\ row_idx = 0
    /\ banner = "none"

MaxNameIdx == 2

\* values of the naming column c1
NameValues ==
    { <<"a">>, <<>>, <<"a", FWColon, "b">>, <<Space, "a", "/", "b", Space>>,
      <<"*", "?", "\"">> }

NameRows == { [c1 |-> v] : v \in NameValues }

\* "" is the widget without a column, c9 a column the row does not have
NameColumns == {"", "c1", "c9"}

NameAffixes == { <<>>, <<"A">>, <<"<", "p", ">">>, <<"|", "\\">> }

NameInit ==
    /\ SessionFresh
    /\ e_pc = "name_input"
    /\ e_in \in [row : NameRows, idx : 0..MaxNameIdx, file_name_col : NameColumns,
                 file_prefix : NameAffixes, file_suffix : NameAffixes]
    /\ e_patterns = <<>>
    /\ e_out = <<>>

\* lines 933-955
GenerateName ==
    /\ e_pc = "name_input"
    /\ e_out' = clean_filename(RawFileName(e_in.row, e_in.idx, e_in.file_name_col,
                                           e_in.file_prefix, e_in.file_suffix))
    /\ e_pc' = "named"
    /\ UNCHANGED <<e_in, e_patterns>>
    /\ UNCHANGED sessionVars

NameNext == GenerateName

SpecName == NameInit /\ [][NameNext]_vars

----------------------------------------------------------------------------
(* fix_float_precision (lines 350-442) on decimal strings.  A Decimal is   *)
(* its sign, the digits of its integer part without leading zeros and the  *)
(* digits after the point, so its exponent is minus the length of frac.    *)

DigitSeq == <<"0", "1", "2", "3", "4", "5", "6", "7", "8", "9">>

Digits == {DigitSeq[i] : i \in 1..Len(DigitSeq)}

DigitVal(c) == (CHOOSE i \in 1..Len(DigitSeq) : DigitSeq[i] = c) - 1

AllDigits(s) == \A i \in 1..Len(s) : s[i] \in Digits

\* str.isdigit
IsDigitStr(s) == s # <<>> /\ AllDigits(s)

\* str.find + 1
IndexOf(s, c) ==
    IF \E i \in 1..Len(s) : s[i] = c
    THEN CHOOSE i \in 1..Len(s) : s[i] = c /\ \A j \in 1..(i - 1) : s[j] # c
    ELSE 0

Unsigned(x) == IF x # <<>> /\ x[1] \in {"-", "+"} THEN Tail(x) ELSE x

\* re.match(r'^\s*[-+]?\d*\.?\d+\s*$', x) on a stripped x
float_pattern(x) ==
    LET body == Unsigned(x)
        dot  == IndexOf(body, ".")
    IN  IF dot = 0 THEN IsDigitStr(body)
        ELSE /\ AllDigits(SubSeq(body, 1, dot - 1))
             /\ IsDigitStr(SubSeq(body, dot + 1, Len(body)))

RECURSIVE LStripChar(_, _)
LStripChar(s, c) == IF s # <<>> /\ s[1] = c THEN LStripChar(Tail(s), c) ELSE s

RECURSIVE RStripChar(_, _)
RStripChar(s, c) ==
    IF s # <<>> /\ s[Len(s)] = c THEN RStripChar(SubSeq(s, 1, Len(s) - 1), c) ELSE s

Zeros(n) == [i \in 1..n |-> "0"]

AllZero(s) == \A i \in 1..Len(s) : s[i] = "0"

\* Decimal(x) for an x that matches float_pattern
Decimal(x) ==
    LET body == Unsigned(x)
        dot  == IndexOf(body, ".")
    IN  [neg  |-> x[1] = "-",
         int  |-> LStripChar(IF dot = 0 THEN body ELSE SubSeq(body, 1, dot - 1), "0"),
         frac |-> IF dot = 0 THEN <<>> ELSE SubSeq(body, dot + 1, Len(body)),
         exponent |-> IF dot = 0 THEN 0 ELSE -(Len(body) - dot)]

IntDigits(d) == IF d.int = <<>> THEN <<"0">> ELSE d.int

SignOf(d) == IF d.neg THEN <<"-">> ELSE <<>>

\* str(int(dec_value)): the integer zero has no sign
IntStr(d) == IF d.int = <<>> THEN <<"0">> ELSE SignOf(d) \o d.int

\* str(float(dec_value)).  For a value of at most 15 significant digits, or
\* one written as the repr of a double, the shortest digits that read back
\* as the same double are the value's own digits: fixed notation from 1e-4
\* up (below 1e16, which MaxIntDigits keeps), exponent notation under 1e-4.
FloatStr(d) ==
    LET sig == RStripChar(LStripChar(d.frac, "0"), "0")
        e   == Len(d.frac) - Len(LStripChar(d.frac, "0")) + 1
    IN  IF d.int = <<>> /\ sig # <<>> /\ e > 4
        THEN SignOf(d) \o <<sig[1]>>
             \o (IF Len(sig) > 1 THEN <<".">> \o Tail(sig) ELSE <<>>)
             \o <<"e", "-", DigitSeq[(e \div 10) + 1], DigitSeq[(e % 10) + 1]>>
        ELSE SignOf(d) \o IntDigits(d) \o <<".">>
             \o (IF RStripChar(d.frac, "0") = <<>> THEN <<"0">>
                 ELSE RStripChar(d.frac, "0"))

\* the digit string plus one
RECURSIVE Incr(_)
Incr(s) ==
    IF s = <<>> THEN <<"1">>
    ELSE IF s[Len(s)] = "9" THEN Incr(SubSeq(s, 1, Len(s) - 1)) \o <<"0">>
    ELSE SubSeq(s, 1, Len(s) - 1) \o <<DigitSeq[DigitVal(s[Len(s)]) + 2]>>

\* the digit after the kept places makes ROUND_HALF_UP round away from zero
RoundsUp(d, dec_places) ==
    Len(d.frac) > dec_places /\ DigitVal(d.frac[dec_places + 1]) >= 5

\* dec_value.quantize(Decimal('1.' + '0' * dec_places), rounding=ROUND_HALF_UP)
quantize(d, dec_places) ==
    IF Len(d.frac) <= dec_places
    THEN [d EXCEPT !.frac = d.frac \o Zeros(dec_places - Len(d.frac)),
                   !.exponent = -dec_places]
    ELSE LET kept == d.int \o SubSeq(d.frac, 1, dec_places)
             coef == IF RoundsUp(d, dec_places) THEN Incr(kept) ELSE kept
             cut  == Len(coef) - dec_places
         IN  [neg  |-> d.neg,
              int  |-> LStripChar(SubSeq(coef, 1, cut), "0"),
              frac |-> SubSeq(coef, cut + 1, Len(coef)),
              exponent |-> -dec_places]

\* abs(quantized - dec_value) < 1e-9, on the digits dropped by quantize: the
\* float 1e-9 is slightly above 10^-9, so a distance of exactly 10^-9 passes
IsClose(d, dec_places) ==
    LET tail == SubSeq(d.frac, dec_places + 1, Len(d.frac))
        k    == 9 - dec_places
        pad  == tail \o Zeros(k)
    IN  IF Len(d.frac) <= dec_places THEN TRUE
        ELSE IF RoundsUp(d, dec_places)
        THEN \A i \in 1..k : pad[i] = "9"
        ELSE \/ AllZero(SubSeq(pad, 1, k))
             \/ /\ AllZero(SubSeq(pad, 1, k - 1))
                /\ pad[k] = "1"
                /\ AllZero(SubSeq(pad, k + 1, Len(pad)))

\* format(quantized, f'.{dec_places}f'): a negative zero keeps its sign
FormatDecimal(q) == SignOf(q) \o IntDigits(q) \o <<".">> \o q.frac

\* result.rstrip('0').rstrip('.') if '.' in result else result
StripResult(result) ==
    IF IndexOf(result, ".") # 0 THEN RStripChar(RStripChar(result, "0"), ".")
    ELSE result

\* str.lower on the letters of the model's column names
Lower(s) ==
    [i \in 1..Len(s) |->
        CASE s[i] = "T" -> "t" [] s[i] = "O" -> "o" [] s[i] = "A" -> "a"
          [] s[i] = "L" -> "l" [] OTHER -> s[i]]

\* "合计"
HeJi == <<"U5408", "U8BA1">>

\* column_name of None
NoName == <<>>

\* line 392
IsAggregate(column_name) ==
    /\ column_name # NoName
    /\ \/ Contains(column_name, HeJi)
       \/ Contains(Lower(column_name), <<"t", "o", "t", "a", "l">>)

\* lines 395-406 from dec_places on: the result, or <<>> when no place fits
RECURSIVE AggregateLoop(_, _)
AggregateLoop(d, dec_places) ==
    IF dec_places > 6 THEN <<>>
    ELSE IF IsClose(d, dec_places)
    THEN StripResult(FormatDecimal(quantize(d, dec_places)))
    ELSE AggregateLoop(d, dec_places + 1)

\* lines 409-433.  Line 427 is reached with all-zero decimals only, where
\* float_val is integral and the first turn, format(float_val, '.1f'),
\* already returns.
SignatureBranch(x, d) ==
    LET float_str == FloatStr(d)
        orig_dec_places == Len(RStripChar(d.frac, "0"))
    IN  IF Contains(float_str, <<"9", "9", "9", "9", "9", "9">>)
           \/ Contains(float_str, <<"0", "0", "0", "0", "0", "0">>)
        THEN IF orig_dec_places > 0
             THEN StripResult(FormatDecimal(quantize(d, orig_dec_places)))
             ELSE StripResult(SignOf(d) \o IntDigits(d) \o <<".", "0">>)
        ELSE x

fix_float_precision(x_, column_name) ==
    LET x == Strip(x_)
        d == Decimal(x)
    IN  IF x_ = <<>> THEN x_
        ELSE IF x = <<>> THEN <<>>
        ELSE IF IsDigitStr(x) THEN x
        ELSE IF ~float_pattern(x) THEN x
        ELSE IF d.exponent >= 0 THEN IntStr(d)
        ELSE IF IsAggregate(column_name) /\ AggregateLoop(d, 2) # <<>>
        THEN AggregateLoop(d, 2)
        ELSE SignatureBranch(x, d)

MaxFracDigits == 7

NormSigns == { <<>>, <<"-">>, <<"+">> }

NormInts == { <<>>, <<"0">>, <<"0", "0", "7">>,
              <<"1", "0", "0", "0", "0", "0", "0">> }

NormFracs == SeqsUpTo({"0", "9"}, MaxFracDigits)

\* 0.48729999999999996, the repr of a double
ArtifactString ==
    <<"0", ".", "4", "8", "7", "2", "9", "9", "9", "9", "9", "9", "9", "9", "9",
      "9", "9", "9", "6">>

NormExtras ==
    { ArtifactString, <<>>, <<"a">>, <<Space, "1", ".", "5", Space>>,
      <<"1", "0", ".", "5", "0", "0">>, <<"0", ".", "4", "5">>,
      <<"1", ".", "0", "0", "0", "0", "0", "0", "4">>,
      <<"1", ".", "9", "9", "9", "9", "9", "9", "9", "9", "9">>,
      <<"-", "0", ".", "0", "0", "0", "0", "0", "0", "0", "0", "0", "1">>,
      <<"2", ".", "0", "0", "5">>, <<"0", ".", "0", "0", "0", "0", "1", "5">> }

NormInputs ==
    {sg \o n \o <<".">> \o f : sg \in NormSigns, n \in NormInts, f \in NormFracs}
    \cup {sg \o n : sg \in NormSigns, n \in NormInts}
    \cup NormExtras

NormColumns ==
    { NoName, <<"c", "2">>, <<"T", "o", "t", "a", "l">>, <<"c">> \o HeJi }

NormInit ==
    /\ SessionFresh
    /\ e_pc = "norm_input"
    /\ e_in \in [x : NormInputs, column_name : NormColumns]
    /\ e_patterns = <<>>
    /\ e_out = <<>>

\* line 614: the cell goes through fix_float_precision
Normalize ==
    /\ e_pc = "norm_input"
    /\ e_out' = fix_float_precision(e_in.x, e_in.column_name)
    /\ e_pc' = "normalized"
    /\ UNCHANGED <<e_in, e_patterns>>
    /\ UNCHANGED sessionVars

\* the result goes through fix_float_precision again, same column
Renormalize ==
    /\ e_pc = "normalized"
    /\ e_in' = [e_in EXCEPT !.x = e_out]
    /\ e_out' = fix_float_precision(e_out, e_in.column_name)
    /\ e_pc' = "renormalized"
    /\ UNCHANGED e_patterns
    /\ UNCHANGED sessionVars

NormNext == Normalize \/ Renormalize

SpecNorm == NormInit /\ [][NormNext]_vars

----------------------------------------------------------------------------
(* Batch ordering and partial failure *)

\* the parameters stored by the last completed run
stored_params == replace_params[1]

\* C1: once a batch run over [start,end] is over, the artifact list holds
\* exactly min(end, rows) - start + 1 artifacts, one per row of the range,
\* with strictly increasing row indices start, start+1, ..., end.
C1_BatchOrdering ==
    (~is_replacing /\ replaced_files # <<>>) =>
        /\ replace_params # <<>>
        /\ Len(replaced_files) =
               Min(stored_params.end_row, stored_params.excel_rows)
                   - stored_params.start_row + 1
        /\ \A i \in 1..Len(replaced_files) :
               replaced_files[i].row_idx + 1 = stored_params.start_row + (i - 1)
        /\ \A i \in 1..(Len(replaced_files) - 1) :
               replaced_files[i].row_idx < replaced_files[i + 1].row_idx

\* a completed run over a range of two rows starting at the first row
C1_Witness ==
    /\ ~is_replacing
    /\ Len(replaced_files) = 2
    /\ replaced_files[1].row_idx = 0
    /\ stored_params.start_row = 1
    /\ stored_params.end_row = 2

----------------------------------------------------------------------------
(* The stored parameters *)

\* C3 as claimed: a run invoked while the stored fingerprint equals the
\* current one and a prior artifact list exists reprocesses no row and leaves
\* the artifact list unchanged.
C3_CachedRunSkipped ==
    [][(~is_replacing /\ is_replacing' /\ ~need_replace)
           => replaced_files' = replaced_files]_vars

\* C3 amended: a run invoked while the stored fingerprint equals the current
\* one and a prior artifact list exists is run again: the list and the log are
\* cleared and the loop starts at the first row of the range.
C3_CachedRunReprocesses ==
    [][(~is_replacing /\ is_replacing' /\ ~need_replace)
           => /\ replaced_files' = <<>>
              /\ replace_log' = <<>>
              /\ row_idx' = start_row - 1]_vars

\* a run started over a list reported as completed has processed its range anew
C3_Witness ==
    /\ is_replacing
    /\ banner = "done"
    /\ replace_params = <<current_params>>
    /\ row_idx = LoopStop
    /\ Len(replaced_files) = LoopStop - start_row + 1

\* C4: a change of the rule list (add, import, delete, clear) invalidates the
\* cached result: the artifact list is emptied or the current fingerprint
\* differs from the stored one.
C4_RuleChangeInvalidates ==
    [][(replace_rules' # replace_rules)
           => (replaced_files' = <<>> \/ need_replace')]_vars

\* a rule was added after a completed run: the list is kept but not current
C4_Witness ==
    /\ ~is_replacing
    /\ replaced_files # <<>>
    /\ replace_params # <<>>
    /\ stored_params.rule_count < Len(replace_rules)
    /\ need_replace

\* C5 as claimed: a change of the scope mode with every other input unchanged
\* makes the current fingerprint differ from the stored one.
C5_ScopeChangeInvalidates ==
    [][(replace_scope' # replace_scope /\ ~need_replace) => need_replace']_vars

\* C6 as claimed: replacing an uploaded file invalidates the cached artifact
\* list, also for a template of the same name and a workbook with as many rows.
C6_UploadInvalidates ==
    [][((word_file' # word_file \/ excel_df' # excel_df) /\ ~need_replace)
           => need_replace']_vars

\* C7: while a batch is running, a further run invocation is rejected: it
\* processes no row and neither clears nor modifies the artifact list and the
\* log, which only grow by the next row of the batch in progress.
C7_BusyRejected ==
    [][is_replacing =>
           /\ IsPrefix(replaced_files, replaced_files')
           /\ IsPrefix(replace_log, replace_log')
           /\ Len(replaced_files') <= Len(replaced_files) + 1
           /\ \/ is_replacing' /\ row_idx' = row_idx
                 /\ replaced_files' = replaced_files
              \/ is_replacing' /\ row_idx' = row_idx + 1
                 /\ Len(replaced_files') = Len(replaced_files) + 1
              \/ ~is_replacing' /\ replaced_files' = replaced_files
           /\ (banner' # banner =>
                   /\ banner' = "busy"
                   /\ UNCHANGED <<replaced_files, replace_log, row_idx,
                                  is_replacing, replace_params>>)]_vars

\* an invocation was rejected while rows of the batch were already done
C7_Witness ==
    /\ is_replacing
    /\ banner = "busy"
    /\ Len(replaced_files) > 0
    /\ row_idx < LoopStop

----------------------------------------------------------------------------
(* The paragraph pass *)

e_raw == ParagraphText(e_in.runs)

Matches(p) == Contains(clean_text(e_raw), p.format_keyword)

AnyMatch == \E i \in 1..Len(e_patterns) : Matches(e_patterns[i])

\* the raw text with the search key of every matching pattern replaced, in
\* rule order, every occurrence
RECURSIVE Substituted(_, _)
Substituted(text, patterns) ==
    IF patterns = <<>> THEN text
    ELSE Substituted(IF Matches(patterns[1])
                     THEN StrReplace(text, patterns[1].format_keyword,
                                     patterns[1].replacement)
                     ELSE text,
                     Tail(patterns))

\* C8: for a block with at least one run in which a pattern matches, the
\* first run holds the raw text with every matching search key replaced
\* (replace-all), every other run is empty, and the number of runs and each
\* run's style are unchanged.
C8_CommitPolicy ==
    (e_pc = "processed" /\ Len(e_in.runs) >= 1 /\ AnyMatch) =>
        /\ Len(e_out.runs) = Len(e_in.runs)
        /\ e_out.runs[1].text = Substituted(e_raw, e_patterns)
        /\ \A i \in 2..Len(e_out.runs) : e_out.runs[i].text = <<>>
        /\ \A i \in 1..Len(e_out.runs) : e_out.runs[i].style = e_in.runs[i].style

\* a keyword split across two runs was replaced
C8_Witness ==
    /\ e_pc = "processed"
    /\ e_in.scope = ScopeFull
    /\ e_in.rules = <<RuleName>>
    /\ Len(e_in.runs) = 2
    /\ e_in.runs[1].text = <<LLent, "n">>
    /\ e_in.runs[2].text = <<RLent>>
    /\ e_out.runs[1].text = <<"v">>
    /\ e_out.runs[2] = Run(<<>>, "bold")

\* C9: a block in which no pattern's search key is a substring of the
\* normalized text is left untouched, and no match is counted for it.
C9_NoMatchUntouched ==
    (e_pc = "processed" /\ ~AnyMatch) =>
        /\ e_out.runs = e_in.runs
        /\ e_out.replace_count = <<>>

\* two non-empty runs and a rule that does not occur in them
C9_Witness ==
    /\ e_pc = "processed"
    /\ Len(e_patterns) >= 1
    /\ ~AnyMatch
    /\ Len(e_in.runs) = 2
    /\ e_in.runs[1].text # <<>>
    /\ e_in.runs[2].text # <<>>
    /\ e_out.runs = e_in.runs

----------------------------------------------------------------------------
(* The pattern compiler *)

BracketPairs == { <<LLent, RLent>>, <<FWLPar, FWRPar>>, <<"(", ")">>, <<LTort, RTort>> }

\* C10 as claimed: in bracket mode a rule whose keyword is wrapped in one of
\* the four bracket pairs compiles to the same opening glyph + row value +
\* the same closing glyph, with the full bracketed keyword as search key.
C10_BracketGlyphsKept ==
    (e_pc = "compiled" /\ e_in.scope = ScopeBracket) =>
        \A i \in 1..Len(e_in.rules) : \A pair \in BracketPairs :
            LET keyword == e_in.rules[i][1]
                value   == e_in.row[e_in.rules[i][2]]
            IN  Bracketed(keyword, pair[1], pair[2]) =>
                    /\ e_patterns[i].replacement = <<pair[1]>> \o value \o <<pair[2]>>
                    /\ e_patterns[i].format_keyword = keyword

----------------------------------------------------------------------------
(* File names *)

\* the base of the name: the cleaned value of the naming column, or the
\* result label and the 1-indexed row number
NameBase ==
    IF e_in.file_name_col # "" /\ e_in.file_name_col \in DOMAIN e_in.row
    THEN clean_text(e_in.row[e_in.file_name_col])
    ELSE ResultLabel \o <<ToString(e_in.idx + 1)>>

\* C11: the file name of a row is prefix + base + suffix + ".docx", made
\* safe, for an empty or non-empty prefix and an empty or non-empty suffix;
\* the base is the cleaned value of the naming column when the column is
\* configured and the row has it, else the result label followed by the
\* 1-indexed row number.
C11_FileNameFormat ==
    e_pc = "named" =>
        e_out = clean_filename(e_in.file_prefix \o NameBase \o e_in.file_suffix
                               \o DocxExt)

\* prefix and suffix given, no naming column: A + label + row number + suffix
C11_Witness ==
    /\ e_pc = "named"
    /\ e_in.file_prefix = <<"A">>
    /\ e_in.file_suffix = <<"<", "p", ">">>
    /\ e_in.file_name_col = "c9"
    /\ e_in.idx = 1
    /\ e_out = <<"A">> \o ResultLabel \o <<"2", "_", "p", "_">> \o DocxExt

\* the name before line 955
NameRaw == e_in.file_prefix \o NameBase \o e_in.file_suffix \o DocxExt

\* C12: a file name holds none of \ / : * ? " < > | ; every such character
\* of the prefix, the base or the suffix has become one underscore and all
\* other characters are kept.
C12_FileNameSafe ==
    e_pc = "named" =>
        /\ \A i \in 1..Len(e_out) :
               e_out[i] \notin {"\\", "/", ":", "*", "?", "\"", "<", ">", "|"}
        /\ Len(e_out) = Len(NameRaw)
        /\ \A i \in 1..Len(e_out) :
               \/ e_out[i] = NameRaw[i]
               \/ e_out[i] = "_" /\ NameRaw[i] \in IllegalChars

\* a fullwidth colon of the value, made a colon by clean_text, and the
\* characters of the prefix are replaced
C12_Witness ==
    /\ e_pc = "named"
    /\ e_in.file_name_col = "c1"
    /\ e_in.row.c1 = <<"a", FWColon, "b">>
    /\ e_in.file_prefix = <<"|", "\\">>
    /\ e_in.file_suffix = <<>>
    /\ e_out = <<"_", "_", "a", "_", "b">> \o DocxExt

----------------------------------------------------------------------------
(* Number cleaning *)

\* C13: fix_float_precision("0.48729999999999996", None) is "0.4873": the
\* string shows the artifact signature and is quantized to its significant
\* decimals.
C13_ArtifactRepaired ==
    (e_pc = "normalized" /\ e_in.x = ArtifactString /\ e_in.column_name = NoName)
        => e_out = <<"0", ".", "4", "8", "7", "3">>

\* C14: applying fix_float_precision to its own result, with the same
\* column name, gives the same result, for every numeric string and column.
C14_Idempotent ==
    e_pc = "renormalized" => e_out = e_in.x

----------------------------------------------------------------------------
(* Exceptions in the batch *)

\* C15: a run that has set the busy flag clears it again: after the last
\* row, with rows that failed, and when an exception ends the loop early.
C15_FlagCleared == is_replacing ~> ~is_replacing

\* the run was cut at line 966: a file without its log line, flag cleared
C15_Witness ==
    /\ ~is_replacing
    /\ Len(replaced_files) > Len(replace_log)

\* C16: an exception while one row is handled is confined to that row: the
\* batch goes on, and when the flag is cleared the list has one artifact
\* for every row of the range.
C16_RowExceptionConfined ==
    [][(is_replacing /\ ~is_replacing')
          => Len(replaced_files') = LoopStop - (start_row - 1)]_vars

----------------------------------------------------------------------------
(* Rule order *)

\* the orderings of a list
Orderings(seq) ==
    { [i \in 1..Len(seq) |-> seq[f[i]]] :
          f \in {g \in [1..Len(seq) -> 1..Len(seq)] :
                     \A i, j \in 1..Len(seq) : i # j => g[i] # g[j]} }

DistinctKeys(patterns) ==
    \A i, j \in 1..Len(patterns) :
        i # j => patterns[i].format_keyword # patterns[j].format_keyword

\* C17: the text of a processed paragraph does not depend on the order of
\* the rules: every ordering of the same patterns, whose search keys are
\* distinct, gives the same text.
C17_OrderIndependent ==
    (e_pc = "processed" /\ DistinctKeys(e_patterns)) =>
        \A other \in Orderings(e_patterns) :
            ParagraphText(process_paragraph(e_in.runs, other).runs)
                = ParagraphText(e_out.runs)

----------------------------------------------------------------------------
(* Rows do not influence each other *)

\* the dataframe with every row but the one at index idx blanked
OnlyRow(df, idx) ==
    [df EXCEPT !.rows =
        [j \in 1..Len(df.rows) |->
            IF j = idx + 1 THEN df.rows[j]
            ELSE [c \in DOMAIN df.rows[j] |-> <<>>]]]

\* C18: the artifact of a row (payload, file name, log) is determined by the
\* template, that row's values, the rules, the scope and the naming: it is
\* what the row gives with the untouched template when every other row of
\* the workbook holds other values, whichever rows came before it.
C18_RowIndependent ==
    is_replacing =>
        \A i \in 1..Len(replaced_files) :
            replaced_files[i] =
                RowArtifact(word_file, OnlyRow(excel_df, replaced_files[i].row_idx),
                            replaced_files[i].row_idx, replace_rules,
                            replace_scope, naming)

\* two rows with different values: the second payload is made from the
\* template, not from the first row's document
C18_Witness ==
    /\ is_replacing
    /\ Len(replaced_files) = 2
    /\ ~replaced_files[1].data.empty
    /\ replaced_files[1].log.kind = "replaced"
    /\ replaced_files[2].log.kind = "replaced"
    /\ replaced_files[1].data # replaced_files[2].data

----------------------------------------------------------------------------
(* The rule list *)

\* C19: the rule list never holds the same (keyword, column) pair twice,
\* whatever rules were added, imported, deleted or cleared.
C19_NoDuplicateRules ==
    \A i \in 1..Len(replace_rules) :
        \A j \in (i + 1)..Len(replace_rules) : replace_rules[i] # replace_rules[j]

\* both rules in the list, the second one added or imported after the first
C19_Witness ==
    /\ replace_rules = <<RuleAmt, RuleName>>
    /\ ~is_replacing

----------------------------------------------------------------------------
(* Runs that cannot start *)

\* a run cannot be requested: a rule, the template or the workbook is
\* missing, or the range is inverted
RunBlocked == ~can_replace \/ start_row > end_row

\* C20: without a rule, a template or a workbook, or with start > end, no
\* run starts: the busy flag stays clear and the log and the stored
\* parameters stay as they are; the artifact list stays as it is too, except
\* that deleting or clearing rules empties it.
C20_BlockedRunNeverStarts ==
    [][(~is_replacing /\ RunBlocked) =>
          /\ ~is_replacing'
          /\ replace_log' = replace_log
          /\ replace_params' = replace_params
          /\ \/ replaced_files' = replaced_files
             \/ /\ replaced_files' = <<>>
                /\ Len(replace_rules') < Len(replace_rules)]_vars

\* a finished result is there and the range is then inverted
C20_Witness ==
    /\ ~is_replacing
    /\ can_replace
    /\ start_row > end_row
    /\ replaced_files # <<>>
    /\ replace_params # <<>>

----------------------------------------------------------------------------
(* The log of a row *)

\* the blocks of the template whose cleaned text holds the pattern's key
MatchedBlocks(word, pat) ==
    LET blocks == word.paragraphs \o word.cells
    IN  {b \in 1..Len(blocks) :
            Contains(clean_text(ParagraphText(blocks[b])), pat.format_keyword)}

\* C21: the log of a row is "not found" exactly when no rule matched in any
\* block; otherwise it has one line per rule that matched in some block,
\* with the rule's keyword, the replacement text substituted for it and the
\* rule's count.
C21_LogLines ==
    (is_replacing /\ word_file.valid) =>
        \A n \in 1..Len(replaced_files) :
            LET f   == replaced_files[n]
                row == excel_df.rows[f.row_idx + 1]
                pats == precompute_replace_patterns(replace_rules, row, replace_scope)
                hit == {i \in 1..Len(pats) : MatchedBlocks(word_file, pats[i]) # {}}
            IN  RowHasColumns(replace_rules, row) =>
                    /\ f.log.kind = "not_found" <=> hit = {}
                    /\ f.log.kind = "replaced" =>
                           /\ Len(f.log.lines) = Cardinality(hit)
                           /\ \A i \in hit :
                                  \E k \in 1..Len(f.log.lines) :
                                      /\ f.log.lines[k].old = pats[i].old_text
                                      /\ f.log.lines[k].value = pats[i].replacement
                                      /\ f.log.lines[k].count =
                                             Cardinality(MatchedBlocks(word_file, pats[i]))

----------------------------------------------------------------------------
(* Bracket scope and plain keywords *)

\* the text is wrapped in one of the bracket pairs
Wrapped(text) ==
    \E pair \in BracketPairs :
        text # <<>> /\ text[1] = pair[1] /\ text[Len(text)] = pair[2]

\* C22: in bracket scope a rule whose cleaned keyword is not wrapped in a
\* bracket pair compiles to the pattern of the full-keyword scope: the
\* search key is the cleaned keyword and the replacement is the row value
\* with nothing added.
C22_PlainKeywordAsFull ==
    (e_pc \in {"compiled", "processed"} /\ e_in.scope = ScopeBracket) =>
        \A i \in 1..Len(e_in.rules) :
            ~Wrapped(clean_text(e_in.rules[i][1])) =>
                /\ e_patterns[i] = CompileRule(e_in.rules[i], e_in.row, ScopeFull)
                /\ e_patterns[i].format_keyword = clean_text(e_in.rules[i][1])
                /\ e_patterns[i].replacement = e_in.row[e_in.rules[i][2]]

\* a keyword that opens a bracket without closing it, compiled in bracket
\* scope
C22_Witness ==
    /\ e_pc = "compiled"
    /\ e_in.scope = ScopeBracket
    /\ e_in.rules = << <<<<IdSpace, LLent, "n">>, "c2">> >>
    /\ e_patterns[1].format_keyword = <<LLent, "n">>
    /\ e_patterns[1].replacement = <<"n", "w">>

----------------------------------------------------------------------------
(* File name collisions *)

\* the name line 955 gives the n-th artifact of the list
NameOfRow(n) ==
    clean_filename(RawFileName(excel_df.rows[replaced_files[n].row_idx + 1],
                               replaced_files[n].row_idx, naming.file_name_col,
                               naming.file_prefix, naming.file_suffix))

\* C23: rows that resolve to the same file name keep their artifacts, in row
\* order and under that same name; the archive has an entry for each of
\* them, and reading the name from the archive gives the payload of the
\* later row.
C23_CollisionsKept ==
    /\ is_replacing =>
           /\ Len(replaced_files) = row_idx - (start_row - 1)
           /\ \A n \in 1..Len(replaced_files) :
                  /\ replaced_files[n].row_idx = start_row - 1 + (n - 1)
                  /\ replaced_files[n].filename = NameOfRow(n)
    /\ (~is_replacing /\ Len(replaced_files) > 1) =>
           LET zip == ZipArchive(replaced_files)
           IN  /\ Len(zip) = Len(replaced_files)
               /\ \A n \in 1..Len(replaced_files) :
                      /\ zip[n].name = replaced_files[n].filename
                      /\ zip[n].data = replaced_files[n].data
               /\ \A m, n \in 1..Len(replaced_files) :
                      (m < n /\ replaced_files[m].filename = replaced_files[n].filename
                             /\ \A k \in (n + 1)..Len(replaced_files) :
                                    replaced_files[k].filename # replaced_files[n].filename)
                          => ZipRead(zip, replaced_files[m].filename)
                                 = replaced_files[n].data

\* two rows named alike with different payloads, packed
C23_Witness ==
    /\ ~is_replacing
    /\ Len(replaced_files) = 2
    /\ replaced_files[1].filename = replaced_files[2].filename
    /\ replaced_files[1].data # replaced_files[2].data
    /\ ~replaced_files[2].data.empty
    /\ ZipRead(ZipArchive(replaced_files), replaced_files[1].filename)
           = replaced_files[2].data

----------------------------------------------------------------------------
(* Integers and whole decimals *)

\* the stripped cell
norm_x == Strip(e_in.x)

\* C24: a cell that is only digits, with or without a leading sign, comes
\* back as it is, stripped: "100" as "100", "+5" as "+5", "-007" as "-007".
C24_SignedDigitsKept ==
    (e_pc = "normalized" /\ IsDigitStr(Unsigned(norm_x))) => e_out = norm_x

\* C25: a decimal string whose value has no fractional part comes back as
\* the integer ("10.0" as "10", "3.000" as "3"), whatever the column.
C25_WholeDecimalAsInteger ==
    (e_pc = "normalized" /\ float_pattern(norm_x)
        /\ AllZero(Decimal(norm_x).frac)) => e_out = IntStr(Decimal(norm_x))

----------------------------------------------------------------------------
(* Counted replacements *)

\* C26: a rule is counted in a paragraph only if the replacement happened
\* there: the paragraph's raw text held the pattern's search key and the
\* new text holds the replacement.
C26_CountedMeansReplaced ==
    e_pc = "processed" =>
        \A i \in 1..Len(e_patterns) :
            (\E k \in 1..Len(e_out.replace_count) :
                 e_out.replace_count[k].key
                     = <<e_patterns[i].old_text, e_patterns[i].col_name>>)
                => /\ Contains(e_raw, e_patterns[i].format_keyword)
                   /\ Contains(ParagraphText(e_out.runs), e_patterns[i].replacement)

----------------------------------------------------------------------------
(* The result reported as completed *)

\* C27: when the list is not empty and the stored parameters equal the
\* current ones, the state reported as completed, the list has one artifact
\* for every row of the current range, cut at the workbook's last row, also
\* after a run that an exception ended early.
C27_CompletedListComplete ==
    (~is_replacing /\ replaced_files # <<>> /\ replace_params = <<current_params>>)
        => /\ Len(replaced_files) = LoopStop - (start_row - 1)
           /\ \A n \in 1..Len(replaced_files) :
                  replaced_files[n].row_idx = start_row - 1 + (n - 1)

----------------------------------------------------------------------------
(* Artifacts, rules and the log *)

\* C28: the artifacts of a non-empty list were all produced with the current
\* rule list: every script run that changes the rule list, by add, import,
\* delete or clear, leaves the artifact list empty.
C28_ArtifactsOfCurrentRules ==
    [][replace_rules' # replace_rules => replaced_files' = <<>>]_vars

\* C29: the log and the artifact list are aligned in every state: as many
\* entries as artifacts, in the same order, the i-th entry being the i-th
\* artifact's log behind its row number.
C29_LogAligned ==
    /\ Len(replace_log) = Len(replaced_files)
    /\ \A i \in 1..Len(replaced_files) :
           replace_log[i] = LogEntry(replaced_files[i].row_idx, replaced_files[i].log)

----------------------------------------------------------------------------
(* The session driven with keywords that clean_text empties *)

KeyRules == {RuleName, RuleBlank}

KeyImportFiles ==
    { <<ImportEntry(TRUE, RuleEmpty)>>,
      <<ImportEntry(TRUE, RuleAmt), ImportEntry(TRUE, RuleBlank)>> }

\* as left by UploadWord(WordA) and UploadExcel(ExcelA)
KeyInit ==
    /\ replace_rules = <<>>
    /\ replaced_files = <<>>
    /\ replace_log = <<>>
    /\ is_replacing = FALSE
    /\ replace_params = <<>>
    /\ replace_scope = ScopeFull
    /\ word_file = WordA
    /\ excel_df = ExcelA
    /\ start_row = 1
    /\ end_row = Len(excel_df.rows)
    /\ naming = Naming(excel_df.columns[1], <<>>, <<>>)
    /\ row_idx = 0
    /\ banner = "none"
    /\ e_pc = "off"
    /\ e_in = EngineIdle
    /\ e_patterns = <<>>
    /\ e_out = [runs |-> <<>>, replace_count |-> <<>>]

KeyNext ==
    \/ \E scope \in {ScopeFull, ScopeBracket} : SetScope(scope)
    \/ \E rule \in KeyRules : AddRule(rule)
    \/ \E rules_data \in KeyImportFiles : ImportRules(rules_data)
    \/ \E idx \in 1..Len(replace_rules) : DeleteRule(idx)
    \/ ReplaceStart
    \/ ReplaceRow
    \/ ReplaceFinish
    \/ ReplaceBusy

SpecKey == KeyInit /\ [][KeyNext]_vars

\* C30: no rule of the list has a keyword that clean_text empties, and every
\* pattern compiled for the row a batch is at has a non-empty search key.
C30_SearchKeysNonEmpty ==
    /\ \A i \in 1..Len(replace_rules) : clean_text(replace_rules[i][1]) # <<>>
    /\ (is_replacing /\ row_idx < LoopStop) =>
           LET patterns == precompute_replace_patterns(
                               replace_rules, excel_df.rows[row_idx + 1], replace_scope)
           IN  \A i \in 1..Len(patterns) : patterns[i].format_keyword # <<>>

====
